---- MODULE Spec2Model ----
(***************************************************************************)
(* Model of ToothFairy_preprocess.py: the label-ID remapper, the voxel     *)
(* relabeler, and the training/validation pair splitter driven by main().  *)
(* File names are sequences of one-character strings so that startswith,   *)
(* endswith, replace, split, join and lexicographic order are computed.    *)
(***************************************************************************)
EXTENDS Integers, Sequences, FiniteSets, TLC

VARIABLES
    \* ---- filesystem and main() / move_matched_pairs state ----
    input_images,      \* <input_root>/imagesTr : set of file names
    input_labels,      \* <input_root>/labelsTr : set of file names
    imagesTr,          \* <output_root>/imagesTr
    labelsTr,          \* <output_root>/labelsTr
    imagesVal,         \* <output_root>/imagesVal
    labelsVal,         \* <output_root>/labelsVal
    numTraining,       \* "numTraining" of <output_root>/dataset.json ("none" before it is written)
    prefixes,          \* ordered prefix list handed to move_matched_pairs
    max_per_prefix,    \* cap handed to move_matched_pairs
    image_groups,      \* prefix -> set of image file names (line 29)
    label_set,         \* set of label base ids (line 30)
    pidx,              \* position of the loop of line 32 in prefixes
    matched,           \* matched list of the current prefix (lines 33-40)
    midx,              \* position of the loop of line 44 in matched
    pc,                \* control point of main()
    run,               \* number of main() invocations started
    prev,              \* outcome of the previous main() invocation
    \* ---- remap_label_ids_from_json ----
    original_labels,   \* data["labels"]: sequence of <<name, id string>> in dict order
    new_id_map,        \* returned mapping old id -> new id
    remapped_labels,   \* name -> new id, written to dataset.json
    rpc,
    \* ---- remap_labels_in_nii ----
    img,               \* voxel values stored in the input file
    id_mapping,        \* dict old -> new as a sequence of <<old, new>> in dict order
    remapped_data,     \* voxel values written to the output file
    npc

splitVars == <<input_images, input_labels, imagesTr, labelsTr, imagesVal, labelsVal,
               numTraining, prefixes, max_per_prefix, image_groups, label_set,
               pidx, matched, midx, pc, run, prev>>
remapVars == <<original_labels, new_id_map, remapped_labels, rpc>>
niiVars == <<img, id_mapping, remapped_data, npc>>
vars == <<splitVars, remapVars, niiVars>>

----------------------------------------------------------------------------
\* Bounds of the model.
MaxCap == 2
MaxRuns == 2
MaxLabels == 3
MaxVoxels == 2
MaxId == 3
MaxEntries == 2

\* Program constants.
Uint16 == 65536
PlaceholderTraining == 0

----------------------------------------------------------------------------
\* Strings.

Ext == <<".", "n", "i", "i", ".", "g", "z">>
Txt == <<".", "t", "x", "t">>
Sep == "_"

\* Code points of the characters that occur in the modelled file names.
CharCode(c) ==
    CASE c = "." -> 46 [] c = "0" -> 48 [] c = "1" -> 49 [] c = "2" -> 50
      [] c = "3" -> 51 [] c = "F" -> 70 [] c = "P" -> 80 [] c = "X" -> 88
      [] c = "_" -> 95 [] c = "g" -> 103 [] c = "i" -> 105 [] c = "n" -> 110
      [] c = "t" -> 116 [] c = "x" -> 120 [] c = "z" -> 122

startswith(s, p) == Len(p) <= Len(s) /\ SubSeq(s, 1, Len(p)) = p

endswith(s, e) == Len(e) <= Len(s) /\ SubSeq(s, Len(s) - Len(e) + 1, Len(s)) = e

\* str.replace(".nii.gz", ""): every occurrence, left to right.
RECURSIVE replace_ext(_)
replace_ext(s) ==
    IF s = <<>> THEN <<>>
    ELSE IF startswith(s, Ext) THEN replace_ext(SubSeq(s, Len(Ext) + 1, Len(s)))
    ELSE <<Head(s)>> \o replace_ext(Tail(s))

\* str.split("_"): the tokens between separators (empty tokens kept).
RECURSIVE split(_, _)
split(s, cur) ==
    IF s = <<>> THEN <<cur>>
    ELSE IF Head(s) = Sep THEN <<cur>> \o split(Tail(s), <<>>)
    ELSE split(Tail(s), Append(cur, Head(s)))

\* "_".join(tokens)
RECURSIVE join(_)
join(toks) ==
    IF toks = <<>> THEN <<>>
    ELSE IF Len(toks) = 1 THEN toks[1]
    ELSE toks[1] \o <<Sep>> \o join(Tail(toks))

FirstTwo(toks) == SubSeq(toks, 1, IF Len(toks) < 2 THEN Len(toks) ELSE 2)

strip_image_id(filename) == join(FirstTwo(split(replace_ext(filename), <<>>)))

\* Python's < on str: lexicographic by code point, a proper prefix is smaller.
RECURSIVE StrLess(_, _)
StrLess(a, b) ==
    IF b = <<>> THEN FALSE
    ELSE IF a = <<>> THEN TRUE
    ELSE IF Head(a) = Head(b) THEN StrLess(Tail(a), Tail(b))
    ELSE CharCode(Head(a)) < CharCode(Head(b))

\* sorted(S, reverse=True) of a set of distinct names.
RECURSIVE SortedReverse(_)
SortedReverse(S) ==
    IF S = {} THEN <<>>
    ELSE LET m == CHOOSE x \in S : \A y \in S \ {x} : StrLess(y, x)
         IN  <<m>> \o SortedReverse(S \ {m})

Range(f) == {f[i] : i \in DOMAIN f}

----------------------------------------------------------------------------
\* The file names the directories are drawn from.

F == <<"F">>
FP == <<"F", "P">>
Img(pfx, case, chan) == pfx \o <<Sep, case, Sep, chan>> \o Ext
Lab(pfx, case) == pfx \o <<Sep, case>> \o Ext

ImageNames ==
    { Img(F, "1", "0"), Img(F, "1", "1"), Img(F, "2", "0"), Img(FP, "1", "0"),
      Img(<<"X">>, "1", "0"), <<"F", Sep, "3", Sep, "0">> \o Txt }

LabelNames ==
    { Lab(F, "1"), Lab(F, "2"), Lab(FP, "1"), <<"F", Sep, "3">> \o Txt }

PrefixLists == { <<F, FP>>, <<FP, F>> }

----------------------------------------------------------------------------
\* Filesystem operations.

NiiFiles(dir) == {f \in dir : endswith(f, Ext)}

\* shutil.copytree(src, dst, dirs_exist_ok=True): every file of src is (over)written in dst.
copytree_skip_existing(src, dst) == IF dst = {} THEN src ELSE dst
copytree(src, dst) == dst \cup src

\* remap_all_labels: one remapped output file per .nii.gz file of label_dir.
remap_all_labels(label_dir, output_dir) == output_dir \cup NiiFiles(label_dir)

\* Index of the first prefix, from position i on, that fname starts with; 0 if none.
RECURSIVE FirstMatch(_, _, _)
FirstMatch(fname, pfxs, i) ==
    IF i > Len(pfxs) THEN 0
    ELSE IF startswith(fname, pfxs[i]) THEN i
    ELSE FirstMatch(fname, pfxs, i + 1)

collect_image_files_by_prefix_nobreak(images_dir, pfxs) ==
    [p \in Range(pfxs) |-> {f \in images_dir : endswith(f, Ext) /\ startswith(f, p)}]
collect_image_files_by_prefix(images_dir, pfxs) ==
    [p \in Range(pfxs) |->
        {f \in images_dir : /\ endswith(f, Ext)
                            /\ FirstMatch(f, pfxs, 1) # 0
                            /\ pfxs[FirstMatch(f, pfxs, 1)] = p}]

collect_label_set(labels_dir) == {replace_ext(f) : f \in NiiFiles(labels_dir)}

\* The loop of lines 34-40 over the reverse-sorted file names of one prefix.
RECURSIVE MatchLoop(_, _, _, _, _)
MatchLoop(names, i, acc, labels, cap) ==
    IF i > Len(names) THEN acc
    ELSE LET fname == names[i]
             base_id == strip_image_id(fname)
             label_fname == base_id \o Ext
             acc2 == IF base_id \in labels
                     THEN Append(acc, <<fname, label_fname>>)
                     ELSE acc
         IN  IF Len(acc2) >= cap THEN acc2
             ELSE MatchLoop(names, i + 1, acc2, labels, cap)

MatchPrefix(groups, labels, prefix, cap) ==
    MatchLoop(SortedReverse(groups[prefix]), 1, <<>>, labels, cap)

----------------------------------------------------------------------------
\* The outcome of one main() invocation.
Outcome == [imagesTr |-> imagesTr, labelsTr |-> labelsTr,
            imagesVal |-> imagesVal, labelsVal |-> labelsVal,
            numTraining |-> numTraining, status |-> pc]

Terminal == pc \in {"done", "failed"}

InitSplit ==
    /\ input_images \in SUBSET ImageNames
    /\ input_labels \in SUBSET LabelNames
    /\ prefixes \in PrefixLists
    /\ max_per_prefix \in 0..MaxCap
    /\ imagesTr = {} /\ labelsTr = {} /\ imagesVal = {} /\ labelsVal = {}
    /\ numTraining = "none"
    /\ image_groups = [p \in Range(prefixes) |-> {}]
    /\ label_set = {}
    /\ pidx = 1 /\ matched = <<>> /\ midx = 1
    /\ pc = "start" /\ run = 0 /\ prev = "none"

RemapIdle ==
    /\ original_labels = <<>> /\ new_id_map = <<>> /\ remapped_labels = <<>> /\ rpc = "idle"

NiiIdle ==
    /\ img = <<>> /\ id_mapping = <<>> /\ remapped_data = <<>> /\ npc = "idle"

\* main(), lines 107-114: write dataset.json with the placeholder count,
\* remap every label into labelsTr, copy the images into imagesTr.
MainRemapAndCopy ==
    /\ pc = "start" \/ (Terminal /\ run < MaxRuns)
    /\ prev' = IF run = 0 THEN "none" ELSE Outcome
    /\ run' = run + 1
    /\ numTraining' = PlaceholderTraining + 1
    /\ labelsTr' = remap_all_labels(input_labels, labelsTr)
    /\ imagesTr' = copytree(input_images, imagesTr)
    /\ pc' = "collect"
    /\ UNCHANGED <<input_images, input_labels, imagesVal, labelsVal, prefixes,
                   max_per_prefix, image_groups, label_set, pidx, matched, midx>>
    /\ UNCHANGED <<remapVars, niiVars>>

\* move_matched_pairs, lines 26-30.
Collect ==
    /\ pc = "collect"
    /\ image_groups' = collect_image_files_by_prefix(imagesTr, prefixes)
    /\ label_set' = collect_label_set(labelsTr)
    /\ pidx' = 1 /\ matched' = <<>> /\ midx' = 1
    /\ pc' = "match"
    /\ UNCHANGED <<input_images, input_labels, imagesTr, labelsTr, imagesVal, labelsVal,
                   numTraining, prefixes, max_per_prefix, run, prev>>
    /\ UNCHANGED <<remapVars, niiVars>>

\* move_matched_pairs, lines 32-42: the matched list of the next prefix,
\* or the return to main() when the prefixes are exhausted.
Match ==
    /\ pc = "match"
    /\ IF pidx > Len(prefixes)
       THEN /\ pc' = "finalize"
            /\ UNCHANGED <<matched, midx>>
       ELSE /\ matched' = MatchPrefix(image_groups, label_set, prefixes[pidx], max_per_prefix)
            /\ midx' = 1
            /\ pc' = "moveImage"
    /\ UNCHANGED <<input_images, input_labels, imagesTr, labelsTr, imagesVal, labelsVal,
                   numTraining, prefixes, max_per_prefix, image_groups, label_set,
                   pidx, run, prev>>
    /\ UNCHANGED <<remapVars, niiVars>>

\* Line 45: shutil.move of the image; raises when the source is missing.
MoveImage ==
    /\ pc = "moveImage"
    /\ IF midx > Len(matched)
       THEN /\ pidx' = pidx + 1
            /\ pc' = "match"
            /\ UNCHANGED <<imagesTr, imagesVal>>
       ELSE LET image_fname == matched[midx][1]
            IN  IF image_fname \in imagesTr
                THEN /\ imagesTr' = imagesTr \ {image_fname}
                     /\ imagesVal' = imagesVal \cup {image_fname}
                     /\ pc' = "moveLabel"
                     /\ UNCHANGED pidx
                ELSE /\ pc' = "failed"
                     /\ UNCHANGED <<imagesTr, imagesVal, pidx>>
    /\ UNCHANGED <<input_images, input_labels, labelsTr, labelsVal, numTraining, prefixes,
                   max_per_prefix, image_groups, label_set, matched, midx, run, prev>>
    /\ UNCHANGED <<remapVars, niiVars>>

\* Line 46: shutil.move of the label; raises when the source is missing.
MoveLabel ==
    /\ pc = "moveLabel"
    /\ LET label_fname == matched[midx][2]
       IN  IF label_fname \in labelsTr
           THEN /\ labelsTr' = labelsTr \ {label_fname}
                /\ labelsVal' = labelsVal \cup {label_fname}
                /\ midx' = midx + 1
                /\ pc' = "moveImage"
           ELSE /\ pc' = "failed"
                /\ UNCHANGED <<labelsTr, labelsVal, midx>>
    /\ UNCHANGED <<input_images, input_labels, imagesTr, imagesVal, numTraining, prefixes,
                   max_per_prefix, image_groups, label_set, pidx, matched, run, prev>>
    /\ UNCHANGED <<remapVars, niiVars>>

\* main(), lines 119-128: count the labels and patch numTraining.
Finalize ==
    /\ pc = "finalize"
    /\ LET total_labels == NiiFiles(labelsTr)
           num_val == Cardinality(NiiFiles(labelsVal))
           num_train == Cardinality(total_labels) - num_val
       IN  numTraining' = num_train
    /\ pc' = "done"
    /\ UNCHANGED <<input_images, input_labels, imagesTr, labelsTr, imagesVal, labelsVal,
                   prefixes, max_per_prefix, image_groups, label_set, pidx, matched,
                   midx, run, prev>>
    /\ UNCHANGED <<remapVars, niiVars>>

NextSplit ==
    \/ MainRemapAndCopy
    \/ Collect
    \/ Match
    \/ MoveImage
    \/ MoveLabel
    \/ Finalize

Init == InitSplit /\ RemapIdle /\ NiiIdle
Spec == Init /\ [][NextSplit]_vars


----------------------------------------------------------------------------
\* remap_label_ids_from_json

LabelTableNames == {"Tooth", "Bone", "Gum"}

\* The id strings of the label table: "0", "2", "5", "10".
IdStrings == { <<"0">>, <<"2">>, <<"5">>, <<"1", "0">> }

Digit(c) == CASE c = "0" -> 0 [] c = "1" -> 1 [] c = "2" -> 2 [] c = "5" -> 5

\* int(s) of a decimal digit string.
RECURSIVE ParseInt(_, _)
ParseInt(s, acc) ==
    IF s = <<>> THEN acc ELSE ParseInt(Tail(s), 10 * acc + Digit(Head(s)))

int(s) == ParseInt(s, 0)

\* Insertion of item x behind every item whose key is <= its key (stable).
RECURSIVE InsertByKey(_, _)
InsertByKey(sortedItems, x) ==
    IF sortedItems = <<>> THEN <<x>>
    ELSE IF int(Head(sortedItems)[2]) <= int(x[2])
         THEN <<Head(sortedItems)>> \o InsertByKey(Tail(sortedItems), x)
         ELSE <<x>> \o sortedItems

\* sorted(original_labels.items(), key=lambda x: int(x[1])), line 53.
RECURSIVE SortItems(_, _)
SortItems(items, acc) ==
    IF items = <<>> THEN acc
    ELSE SortItems(Tail(items), InsertByKey(acc, Head(items)))

label_items_of(labels) == SortItems(labels, <<>>)

\* d[k] = v on a dict: a later assignment to the same key replaces the earlier one.
DictPut(d, k, v) == [x \in (DOMAIN d) \cup {k} |-> IF x = k THEN v ELSE d[x]]

\* Line 54: {int(old_id): new_id for new_id, (_, old_id) in enumerate(label_items)}
RECURSIVE BuildIdMap(_, _, _)
BuildIdMap(items, i, d) ==
    IF i > Len(items) THEN d
    ELSE BuildIdMap(items, i + 1, DictPut(d, int(items[i][2]), i - 1))

\* Line 56: {name: new_id for new_id, (name, _) in enumerate(label_items)}
RECURSIVE BuildNameMap(_, _, _)
BuildNameMap(items, i, d) ==
    IF i > Len(items) THEN d
    ELSE BuildNameMap(items, i + 1, DictPut(d, items[i][1], i - 1))

LabelTables ==
    UNION { { t \in [1..n -> LabelTableNames \X IdStrings] :
                \A i, j \in 1..n : i # j => t[i][1] # t[j][1] } : n \in 0..MaxLabels }

InitRemap ==
    /\ original_labels \in LabelTables
    /\ new_id_map = <<>> /\ remapped_labels = <<>>
    /\ rpc = "loaded"

SplitIdle ==
    /\ input_images = {} /\ input_labels = {}
    /\ prefixes = <<>> /\ max_per_prefix = 0
    /\ imagesTr = {} /\ labelsTr = {} /\ imagesVal = {} /\ labelsVal = {}
    /\ numTraining = "none" /\ image_groups = <<>> /\ label_set = {}
    /\ pidx = 1 /\ matched = <<>> /\ midx = 1
    /\ pc = "idle" /\ run = 0 /\ prev = "none"

\* remap_label_ids_from_json, lines 52-56 and 72.
RemapLabelIds ==
    /\ rpc = "loaded"
    /\ LET label_items == label_items_of(original_labels)
       IN  /\ new_id_map' = BuildIdMap(label_items, 1, <<>>)
           /\ remapped_labels' = BuildNameMap(label_items, 1, <<>>)
    /\ rpc' = "done"
    /\ UNCHANGED <<original_labels, splitVars, niiVars>>

NextRemap == RemapLabelIds

RemapInit == InitRemap /\ SplitIdle /\ NiiIdle
SpecRemap == RemapInit /\ [][NextRemap]_vars

----------------------------------------------------------------------------
\* remap_labels_in_nii

\* astype(np.uint16) of a non-negative integer voxel value.
astype_uint16(v) == v % Uint16

\* Lines 79-80: remapped_data[data == old_id] = new_id, entry by entry.
RECURSIVE ApplyMapping(_, _, _, _)
ApplyMapping(data, out, mapping, k) ==
    IF k > Len(mapping) THEN out
    ELSE LET old_id == mapping[k][1]
             new_id == mapping[k][2]
         IN  ApplyMapping(data,
                          [i \in DOMAIN out |->
                              IF data[i] = old_id THEN astype_uint16(new_id) ELSE out[i]],
                          mapping, k + 1)

\* The same loop writing into the array it reads.
RECURSIVE ApplyInPlace(_, _, _)
ApplyInPlace(data, mapping, k) ==
    IF k > Len(mapping) THEN data
    ELSE ApplyInPlace([i \in DOMAIN data |->
                          IF data[i] = mapping[k][1] THEN astype_uint16(mapping[k][2])
                          ELSE data[i]],
                      mapping, k + 1)

remap_voxels_in_place(volume, mapping) ==
    ApplyInPlace([i \in DOMAIN volume |-> astype_uint16(volume[i])], mapping, 1)
\* Lines 76-80: the voxel array written for the voxel array read.
remap_voxels(volume, mapping) ==
    LET data == [i \in DOMAIN volume |-> astype_uint16(volume[i])]
        zeros == [i \in DOMAIN volume |-> 0]
    IN  ApplyMapping(data, zeros, mapping, 1)

Mappings ==
    UNION { { m \in [1..n -> (0..MaxId) \X (0..MaxId)] :
                \A i, j \in 1..n : i # j => m[i][1] # m[j][1] } : n \in 0..MaxEntries }

InitNii ==
    /\ img \in [1..MaxVoxels -> 0..MaxId]
    /\ id_mapping \in Mappings
    /\ remapped_data = <<>>
    /\ npc = "loaded"

\* remap_labels_in_nii, lines 75-83.
RemapLabelsInNii ==
    /\ npc = "loaded"
    /\ remapped_data' = remap_voxels(img, id_mapping)
    /\ npc' = "done"
    /\ UNCHANGED <<img, id_mapping, splitVars, remapVars>>

NextNii == RemapLabelsInNii

NiiInit == InitNii /\ SplitIdle /\ RemapIdle
SpecNii == NiiInit /\ [][NextNii]_vars

----------------------------------------------------------------------------
\* Properties.

Min(a, b) == IF a < b THEN a ELSE b

\* The images of prefix p whose label was present when the split started.
LabelMatched(p) == {f \in image_groups[p] : strip_image_id(f) \in label_set}

\* C1: when main() has finished, numTraining of the output dataset.json is the
\* number of .nii.gz label files present in the output labelsTr directory
\* (stated for the positive caps, main() passing 17).
C1_NumTrainingIsLabelCount ==
    (pc = "done" /\ max_per_prefix >= 1) => numTraining = Cardinality(NiiFiles(labelsTr))

\* C2: the returned ID mapping is a bijection from the distinct original IDs
\* onto 0..N-1, N being the number of distinct original IDs.
C2_MappingIsBijectionOntoDenseRange ==
    rpc = "done" =>
        LET ids == {int(original_labels[i][2]) : i \in DOMAIN original_labels}
            N == Cardinality(ids)
        IN  /\ DOMAIN new_id_map = ids
            /\ {new_id_map[k] : k \in ids} = 0..(N - 1)

\* C3: for every prefix and every cap >= 0 the matched list has at most cap
\* pairs, and exactly cap pairs when at least cap images of the prefix have
\* a label.
C3_AtMostCapSelected ==
    pc \in {"moveImage", "moveLabel"} =>
        LET m == Cardinality(LabelMatched(prefixes[pidx]))
        IN  /\ Len(matched) <= max_per_prefix
            /\ (m >= max_per_prefix => Len(matched) = max_per_prefix)

\* C4: every voxel whose input value is a key of the mapping holds the value
\* the mapping gives that key (applied once to the input value), and every
\* other voxel holds 0.
IsKey(v) == \E k \in DOMAIN id_mapping : id_mapping[k][1] = v
ValueOf(v) == id_mapping[CHOOSE k \in DOMAIN id_mapping : id_mapping[k][1] = v][2]

C4_VoxelsMappedOnce ==
    npc = "done" =>
        /\ DOMAIN remapped_data = DOMAIN img
        /\ \A i \in DOMAIN img :
              /\ IsKey(img[i]) => remapped_data[i] = ValueOf(img[i])
              /\ ~IsKey(img[i]) => remapped_data[i] = 0
              /\ remapped_data[i] = 0 \/ \E k \in DOMAIN id_mapping : remapped_data[i] = id_mapping[k][2]

\* A chained mapping (a new ID that is a later entry's old ID) was applied to a
\* voxel holding the first entry's key.
C4_Witness ==
    /\ npc = "done"
    /\ \E a, b \in DOMAIN id_mapping :
          /\ a < b
          /\ id_mapping[a][2] = id_mapping[b][1]
          /\ id_mapping[b][2] # id_mapping[a][2]
          /\ \E i \in DOMAIN img : img[i] = id_mapping[a][1] /\ remapped_data[i] = id_mapping[a][2]
    /\ \E i \in DOMAIN img : ~IsKey(img[i]) /\ img[i] # 0

\* C5: the images of a prefix found in validation after the split are the
\* first min(cap, m) label-matched images of the prefix in reverse
\* lexicographic order.
C5_HighestMatchedMoved ==
    (pc = "done" /\ run = 1) =>
        \A p \in Range(prefixes) :
            LET M == LabelMatched(p)
                moved == image_groups[p] \cap imagesVal
            IN  /\ moved \subseteq M
                /\ Cardinality(moved) = Min(max_per_prefix, Cardinality(M))
                /\ \A a \in M \ moved : \A b \in moved : StrLess(a, b)

\* C6: for every label name, its new ID in the output label table is the ID
\* mapping applied to its original ID.
C6_TableAgreesWithMapping ==
    rpc = "done" =>
        \A i \in DOMAIN original_labels :
            remapped_labels[original_labels[i][1]] = new_id_map[int(original_labels[i][2])]

\* C7 (as stated): a second main() run against the uncleared output root of a
\* run that moved files does not reproduce that run's outcome.
C7_SecondRunDiffers ==
    (run >= 2 /\ Terminal /\ prev.labelsVal # {}) => Outcome # prev

\* C7 (amended): a second main() run with the same input against the
\* uncleared output root ends with the directories, numTraining and
\* completion status of the run before it.
C7_SecondRunReproducesFirst ==
    (run >= 2 /\ Terminal) => Outcome = prev

C7_Witness ==
    /\ run = 2 /\ pc = "done"
    /\ imagesVal # {} /\ labelsVal # {} /\ imagesTr # {}
    /\ Outcome = prev

\* C8: every .nii.gz image is in at most one group, the group of the first
\* prefix in list order that its name starts with; an image that starts with
\* no prefix is in no group and is not in validation.
C8_FirstPrefixWins ==
    pc \in {"match", "moveImage", "moveLabel", "finalize", "done", "failed"} =>
        \A f \in imagesTr \cup imagesVal :
            /\ \A i, j \in DOMAIN prefixes :
                  (f \in image_groups[prefixes[i]] /\ f \in image_groups[prefixes[j]]) => i = j
            /\ \A i \in DOMAIN prefixes :
                  f \in image_groups[prefixes[i]] <=>
                      /\ endswith(f, Ext)
                      /\ startswith(f, prefixes[i])
                      /\ \A j \in 1..(i - 1) : ~startswith(f, prefixes[j])
            /\ (\A i \in DOMAIN prefixes : ~startswith(f, prefixes[i])) =>
                  /\ \A i \in DOMAIN prefixes : f \notin image_groups[prefixes[i]]
                  /\ f \notin imagesVal

\* An image that starts with both prefixes was grouped and moved under the
\* first one while an image of no prefix stayed in training.
C8_Witness ==
    /\ pc = "done"
    /\ prefixes = <<F, FP>>
    /\ Img(FP, "1", "0") \in image_groups[F] \cap imagesVal
    /\ Img(<<"X">>, "1", "0") \in imagesTr
    /\ Img(F, "2", "0") \in imagesVal

\* C9: no move issued by move_matched_pairs finds its source missing, so the
\* split never stops on a failed move.
C9_NoFailedMove == run = 1 => pc # "failed"

\* C10: when the split has completed, every image whose label was present
\* before the split is in the same subset as its label, and no file is in
\* both the training and the validation directories (stated for the positive
\* caps).
C10_PairsStayTogether ==
    (pc = "done" /\ max_per_prefix >= 1) =>
        /\ imagesTr \cap imagesVal = {}
        /\ labelsTr \cap labelsVal = {}
        /\ \A f \in imagesTr \cup imagesVal :
              LET base_id == strip_image_id(f)
                  label_fname == base_id \o Ext
              IN  base_id \in label_set =>
                      /\ f \in imagesVal <=> label_fname \in labelsVal
                      /\ f \in imagesTr <=> label_fname \in labelsTr

====
